---- MODULE Spec2Model ----
(***************************************************************************)
(* nprint-rs: the header-encoding engine.  Raw link-layer frames are       *)
(* demultiplexed (Ethernet / one VLAN tag / IPv4 / TCP or UDP), every      *)
(* protocol of the configured stack is unpacked bit by bit into a vector   *)
(* of the values -1, 0 and 1, and an Nprint accumulates one set of such    *)
(* vectors per packet.                                                     *)
(*                                                                         *)
(* A byte slice is a sequence of numbers 0..255; Rust's 0-based packet[i]  *)
(* is At(packet, i).  An f32 of the program is modelled by the integer it  *)
(* holds (-1, 0 or 1).  An Option<T> is a sequence of at most one element. *)
(***************************************************************************)
EXTENDS Integers, Sequences, FiniteSets, TLC

VARIABLES
  protocols,  \* Nprint.protocols: the stack given to Nprint::new
  data,       \* Nprint.data: one Headers per packet, each a sequence of boxed headers
  nb_pkt,     \* Nprint.nb_pkt
  op,         \* the last operation called
  ret,        \* what the last operation returned (<<>> when it returns nothing)
  arg,        \* the byte slice handed to a dissector or to Headers::new
  argStack,   \* the protocol stack handed to Headers::new
  out,        \* what the dissector or Headers::new returned
  fed,        \* history: the frames given to Nprint::new and Nprint::add, in order
  anonymized  \* history: whether Nprint::anonymize has been called

vars == <<protocols, data, nb_pkt, op, ret, arg, argStack, out, fed, anonymized>>

---------------------------------------------------------------------------
(* Bounds of the model.                                                    *)

\* the longest protocol stack that is tried
MaxStack == 2
\* the largest number of packets an Nprint is driven to
MaxPkts == 3

---------------------------------------------------------------------------
(* Bytes, bits and options.                                                *)

None == <<>>
Some(x) == <<x>>
IsSome(o) == Len(o) = 1
Unwrap(o) == o[1]

At(packet, i) == packet[i + 1]
Min(a, b) == IF a < b THEN a ELSE b

\* the mutant of Bit that shifts and does not mask
Bit_noMask(byte, i) == byte \div (2 ^ i)

\* (byte >> i) & 1
Bit(byte, i) == (byte \div (2 ^ i)) % 2

\* (0..n).rev().map(|i| ((byte >> (sh + i)) & 1) as f32)
RevBits(byte, n, sh) == [k \in 1..n |-> Bit(byte, sh + (n - k))]

\* (0..n).map(|i| ((packet[off + (i / 8)] >> (7 - (i % 8))) & 1) as f32)
FwdBits(packet, off, n) ==
  [k \in 1..n |-> Bit(At(packet, off + ((k - 1) \div 8)), 7 - ((k - 1) % 8))]

\* vec![-1.; n]
Filled(n, v) == [k \in 1..n |-> v]

\* the mutant of OptionBits that unpacks every byte by (0..8), lowest bit first
OptionBits_lsbFirst(options) ==
  [k \in 1..(8 * Len(options)) |->
     Bit(options[((k - 1) \div 8) + 1], (k - 1) % 8)]

\* the loop of get_options_bits: every byte unpacked by (0..8).rev()
OptionBits(options) ==
  [k \in 1..(8 * Len(options)) |->
     Bit(options[((k - 1) \div 8) + 1], 7 - ((k - 1) % 8))]

\* the mutant of Ipv4_get_options_bits that forgets to pad
Ipv4_get_options_bits_nopad(options) == OptionBits(options)

\* ipv4.rs get_options_bits: unpack, then push -1 while data.len() < 320
Ipv4_get_options_bits(options) ==
  LET bits == OptionBits(options)
  IN  IF Len(bits) < 320 THEN bits \o Filled(320 - Len(bits), -1) ELSE bits

\* the mutant of Tcp_get_options_bits that pads before the bits
Tcp_get_options_bits_padFirst(options) ==
  LET bits == OptionBits(options)
  IN  IF Len(bits) < 320 THEN Filled(320 - Len(bits), -1) \o bits ELSE bits

\* tcp.rs get_options_bits: the same code
Tcp_get_options_bits(options) ==
  LET bits == OptionBits(options)
  IN  IF Len(bits) < 320 THEN bits \o Filled(320 - Len(bits), -1) ELSE bits

---------------------------------------------------------------------------
(* The packet views of the pnet library, as the program uses them.         *)

\* EthernetPacket::new: Some when the 14 bytes of the header are there
EthernetPacket_new(packet) == IF Len(packet) >= 14 THEN Some(packet) ELSE None
Ethernet_get_ethertype(p) == At(p, 12) * 256 + At(p, 13)
Ethernet_payload(p) == SubSeq(p, 15, Len(p))

\* VlanPacket::new: Some when the 4 bytes of the tag are there
VlanPacket_new(packet) == IF Len(packet) >= 4 THEN Some(packet) ELSE None
Vlan_get_ethertype(p) == At(p, 2) * 256 + At(p, 3)
Vlan_payload(p) == SubSeq(p, 5, Len(p))

EtherTypes_Ipv4 == 2048
EtherTypes_Vlan == 33024
IpNextHeaderProtocols_Tcp == 6
IpNextHeaderProtocols_Udp == 17

\* Ipv4Packet::new: Some when the 20 bytes of the fixed header are there
Ipv4Packet_new(packet) == IF Len(packet) >= 20 THEN Some(packet) ELSE None
Ipv4_get_header_length(p) == At(p, 0) % 16
Ipv4_get_total_length(p) == At(p, 2) * 256 + At(p, 3)
Ipv4_get_next_level_protocol(p) == At(p, 9)
\* (header_length * 4).saturating_sub(20)
Ipv4_options_length(p) ==
  IF Ipv4_get_header_length(p) * 4 > 20 THEN Ipv4_get_header_length(p) * 4 - 20 ELSE 0
\* total_length.saturating_sub(header_length * 4)
Ipv4_payload_length(p) ==
  IF Ipv4_get_total_length(p) > Ipv4_get_header_length(p) * 4
  THEN Ipv4_get_total_length(p) - Ipv4_get_header_length(p) * 4 ELSE 0
\* the mutant of Ipv4_get_options_raw that takes all that follows the fixed
\* header as options
Ipv4_get_options_raw_rest(p) == SubSeq(p, 21, Len(p))

\* &packet[20 .. min(20 + options_length, packet.len())]
Ipv4_get_options_raw(p) == SubSeq(p, 21, Min(20 + Ipv4_options_length(p), Len(p)))
\* &packet[start .. min(start + payload_length, packet.len())], empty when
\* the packet ends at or before start
Ipv4_payload(p) ==
  LET start == 20 + Ipv4_options_length(p)
      end == Min(start + Ipv4_payload_length(p), Len(p))
  IN  IF Len(p) <= start THEN <<>> ELSE SubSeq(p, start + 1, end)

\* the mutant of TcpPacket_new that makes the view whatever the length
TcpPacket_new_unchecked(packet) == Some(packet)

\* TcpPacket::new: Some when the 20 bytes of the fixed header are there
TcpPacket_new(packet) == IF Len(packet) >= 20 THEN Some(packet) ELSE None
Tcp_get_data_offset(p) == At(p, 12) \div 16
Tcp_options_length(p) ==
  IF Tcp_get_data_offset(p) > 5 THEN Tcp_get_data_offset(p) * 4 - 20 ELSE 0
Tcp_get_options_raw(p) == SubSeq(p, 21, Min(20 + Tcp_options_length(p), Len(p)))

\* UdpPacket::new: Some when the 8 bytes of the header are there
UdpPacket_new(packet) == IF Len(packet) >= 8 THEN Some(packet) ELSE None

---------------------------------------------------------------------------
(* The dissectors.                                                         *)

\* the mutant of Ipv4Header_default that fills the vector with 0
Ipv4Header_default_zero == Filled(480, 0)

\* impl Default for Ipv4Header: vec![-1.; 480]
Ipv4Header_default == Filled(480, -1)

\* impl Default for TcpHeader: vec![-1.; 480]
TcpHeader_default == Filled(480, -1)

\* the mutant of UdpHeader_default that fills the vector with 0
UdpHeader_default_zero == Filled(64, 0)

\* impl Default for UdpHeader: vec![-1.; 64]
UdpHeader_default == Filled(64, -1)

\* the 13 bits of the fragment offset: five from byte 6, eight from byte 7
Ipv4FragmentOffsetBits(packet) ==
  [k \in 1..13 |->
     IF k - 1 < 5 THEN Bit(At(packet, 6), 4 - (k - 1))
     ELSE Bit(At(packet, 7), 7 - ((k - 1) - 5))]

\* the mutant of Ipv4FixedBits that unpacks the flags least-significant bit first
Ipv4FixedBits_flagsLsb(packet) ==
     RevBits(At(packet, 0), 4, 4)
  \o RevBits(At(packet, 0), 4, 0)
  \o RevBits(At(packet, 1), 6, 2)
  \o RevBits(At(packet, 1), 2, 0)
  \o FwdBits(packet, 2, 16)
  \o FwdBits(packet, 4, 16)
  \o [k \in 1..3 |-> Bit(At(packet, 6), 5 + (k - 1))]
  \o Ipv4FragmentOffsetBits(packet)
  \o RevBits(At(packet, 8), 8, 0)
  \o RevBits(At(packet, 9), 8, 0)
  \o FwdBits(packet, 10, 16)
  \o FwdBits(packet, 12, 32)
  \o FwdBits(packet, 16, 32)

\* the data.extend calls of Ipv4Header::new before the options
Ipv4FixedBits(packet) ==
     RevBits(At(packet, 0), 4, 4)
  \o RevBits(At(packet, 0), 4, 0)
  \o RevBits(At(packet, 1), 6, 2)
  \o RevBits(At(packet, 1), 2, 0)
  \o FwdBits(packet, 2, 16)
  \o FwdBits(packet, 4, 16)
  \o RevBits(At(packet, 6), 3, 5)
  \o Ipv4FragmentOffsetBits(packet)
  \o RevBits(At(packet, 8), 8, 0)
  \o RevBits(At(packet, 9), 8, 0)
  \o FwdBits(packet, 10, 16)
  \o FwdBits(packet, 12, 32)
  \o FwdBits(packet, 16, 32)

\* Ipv4Header::new
Ipv4Header_new(packet) ==
  IF IsSome(Ipv4Packet_new(packet))
  THEN LET p == Unwrap(Ipv4Packet_new(packet))
           option == Ipv4_get_options_raw(p)
       IN  Ipv4FixedBits(p) \o Ipv4_get_options_bits(option)
  ELSE Ipv4Header_default

\* the mutant of TcpFixedBits that swaps the two halves of byte 12
TcpFixedBits_swapNibbles(packet) ==
     FwdBits(packet, 0, 16)
  \o FwdBits(packet, 2, 16)
  \o FwdBits(packet, 4, 32)
  \o FwdBits(packet, 8, 32)
  \o RevBits(At(packet, 12), 4, 0)
  \o RevBits(At(packet, 12), 4, 4)
  \o RevBits(At(packet, 13), 8, 0)
  \o FwdBits(packet, 14, 16)
  \o FwdBits(packet, 16, 16)
  \o FwdBits(packet, 18, 16)

\* the data.extend calls of TcpHeader::new before the options
TcpFixedBits(packet) ==
     FwdBits(packet, 0, 16)
  \o FwdBits(packet, 2, 16)
  \o FwdBits(packet, 4, 32)
  \o FwdBits(packet, 8, 32)
  \o RevBits(At(packet, 12), 4, 4)
  \o RevBits(At(packet, 12), 4, 0)
  \o RevBits(At(packet, 13), 8, 0)
  \o FwdBits(packet, 14, 16)
  \o FwdBits(packet, 16, 16)
  \o FwdBits(packet, 18, 16)

\* TcpHeader::new
TcpHeader_new(packet) ==
  IF IsSome(TcpPacket_new(packet))
  THEN LET p == Unwrap(TcpPacket_new(packet))
           option == Tcp_get_options_raw(p)
       IN  TcpFixedBits(p) \o Tcp_get_options_bits(option)
  ELSE TcpHeader_default

\* the mutant of UdpHeader_new that reads the checksum from bytes 8 and 9
\* when the slice has them
UdpHeader_new_cksumPast(packet) ==
  IF IsSome(UdpPacket_new(packet))
  THEN LET p == Unwrap(UdpPacket_new(packet))
       IN     FwdBits(p, 0, 16)
           \o FwdBits(p, 2, 16)
           \o FwdBits(p, 4, 16)
           \o (IF Len(p) >= 10 THEN FwdBits(p, 8, 16) ELSE FwdBits(p, 6, 16))
  ELSE UdpHeader_default

\* UdpHeader::new
UdpHeader_new(packet) ==
  IF IsSome(UdpPacket_new(packet))
  THEN LET p == Unwrap(UdpPacket_new(packet))
       IN     FwdBits(p, 0, 16)
           \o FwdBits(p, 2, 16)
           \o FwdBits(p, 4, 16)
           \o FwdBits(p, 6, 16)
  ELSE UdpHeader_default

---------------------------------------------------------------------------
(* Headers: the encoding of one packet.                                    *)

ProtocolType == {"Ipv4", "Tcp", "Udp"}

\* Box<dyn PacketHeader>: the header with the type it was built as
Box(kind, header) == [kind |-> kind, data |-> header]

\* the mutant of Demux that hands the IPv4 payload to both transport
\* dissectors whatever the next protocol
Demux_anyProtocol(packet) ==
  LET eth == EthernetPacket_new(packet)
      ethernet == Unwrap(eth)
      vlan == VlanPacket_new(Ethernet_payload(ethernet))
      popped == Ethernet_get_ethertype(ethernet) = EtherTypes_Vlan /\ IsSome(vlan)
      ethertype == IF popped THEN Vlan_get_ethertype(Unwrap(vlan))
                   ELSE Ethernet_get_ethertype(ethernet)
      payload == IF popped THEN Vlan_payload(Unwrap(vlan))
                 ELSE Ethernet_payload(ethernet)
      isIpv4 == IsSome(eth) /\ ethertype = EtherTypes_Ipv4
                  /\ IsSome(Ipv4Packet_new(payload))
      ipv4_packet == Unwrap(Ipv4Packet_new(payload))
  IN  [ipv4 |-> IF isIpv4 THEN Some(Ipv4Header_new(payload)) ELSE None,
       tcp  |-> IF isIpv4 THEN Some(TcpHeader_new(Ipv4_payload(ipv4_packet))) ELSE None,
       udp  |-> IF isIpv4 THEN Some(UdpHeader_new(Ipv4_payload(ipv4_packet))) ELSE None]

\* the mutant of Demux that pops a second VLAN tag as it pops the first
Demux_twoTags(packet) ==
  LET eth == EthernetPacket_new(packet)
      ethernet == Unwrap(eth)
      vlan == VlanPacket_new(Ethernet_payload(ethernet))
      popped == Ethernet_get_ethertype(ethernet) = EtherTypes_Vlan /\ IsSome(vlan)
      ethertype1 == IF popped THEN Vlan_get_ethertype(Unwrap(vlan))
                    ELSE Ethernet_get_ethertype(ethernet)
      payload1 == IF popped THEN Vlan_payload(Unwrap(vlan))
                  ELSE Ethernet_payload(ethernet)
      vlan2 == VlanPacket_new(payload1)
      popped2 == popped /\ ethertype1 = EtherTypes_Vlan /\ IsSome(vlan2)
      ethertype == IF popped2 THEN Vlan_get_ethertype(Unwrap(vlan2)) ELSE ethertype1
      payload == IF popped2 THEN Vlan_payload(Unwrap(vlan2)) ELSE payload1
      isIpv4 == IsSome(eth) /\ ethertype = EtherTypes_Ipv4
                  /\ IsSome(Ipv4Packet_new(payload))
      ipv4_packet == Unwrap(Ipv4Packet_new(payload))
  IN  [ipv4 |-> IF isIpv4 THEN Some(Ipv4Header_new(payload)) ELSE None,
       tcp  |-> IF isIpv4 /\ Ipv4_get_next_level_protocol(ipv4_packet)
                              = IpNextHeaderProtocols_Tcp
                THEN Some(TcpHeader_new(Ipv4_payload(ipv4_packet))) ELSE None,
       udp  |-> IF isIpv4 /\ Ipv4_get_next_level_protocol(ipv4_packet)
                              = IpNextHeaderProtocols_Udp
                THEN Some(UdpHeader_new(Ipv4_payload(ipv4_packet))) ELSE None]

\* the first half of Headers::new: the Option<Ipv4Header>, Option<TcpHeader>
\* and Option<UdpHeader> the frame yields
Demux(packet) ==
  LET eth == EthernetPacket_new(packet)
      ethernet == Unwrap(eth)
      vlan == VlanPacket_new(Ethernet_payload(ethernet))
      popped == Ethernet_get_ethertype(ethernet) = EtherTypes_Vlan /\ IsSome(vlan)
      ethertype == IF popped THEN Vlan_get_ethertype(Unwrap(vlan))
                   ELSE Ethernet_get_ethertype(ethernet)
      payload == IF popped THEN Vlan_payload(Unwrap(vlan))
                 ELSE Ethernet_payload(ethernet)
      isIpv4 == IsSome(eth) /\ ethertype = EtherTypes_Ipv4
                  /\ IsSome(Ipv4Packet_new(payload))
      ipv4_packet == Unwrap(Ipv4Packet_new(payload))
  IN  [ipv4 |-> IF isIpv4 THEN Some(Ipv4Header_new(payload)) ELSE None,
       tcp  |-> IF isIpv4 /\ Ipv4_get_next_level_protocol(ipv4_packet)
                              = IpNextHeaderProtocols_Tcp
                THEN Some(TcpHeader_new(Ipv4_payload(ipv4_packet))) ELSE None,
       udp  |-> IF isIpv4 /\ Ipv4_get_next_level_protocol(ipv4_packet)
                              = IpNextHeaderProtocols_Udp
                THEN Some(UdpHeader_new(Ipv4_payload(ipv4_packet))) ELSE None]

\* Option::unwrap_or_else
unwrap_or_else(o, default) == IF IsSome(o) THEN Unwrap(o) ELSE default

\* the mutant of Headers_new that pushes nothing for a protocol the frame
\* does not carry
Headers_new_skipAbsent(packet, stack) ==
  LET found == Demux(packet)
      present(proto) == CASE proto = "Ipv4" -> IsSome(found.ipv4)
                          [] proto = "Tcp" -> IsSome(found.tcp)
                          [] proto = "Udp" -> IsSome(found.udp)
      header(proto) == CASE proto = "Ipv4" -> Unwrap(found.ipv4)
                         [] proto = "Tcp" -> Unwrap(found.tcp)
                         [] proto = "Udp" -> Unwrap(found.udp)
  IN  [i \in 1..Len(SelectSeq(stack, present)) |->
         Box(SelectSeq(stack, present)[i], header(SelectSeq(stack, present)[i]))]

\* the mutant of Headers_new that pushes the headers in the fixed order
\* Ipv4, Tcp, Udp instead of the order of the stack
Headers_new_fixedOrder(packet, stack) ==
  LET found == Demux(packet)
      count(proto) == Len(SelectSeq(stack, LAMBDA q : q = proto))
  IN     [i \in 1..count("Ipv4") |->
            Box("Ipv4", unwrap_or_else(found.ipv4, Ipv4Header_default))]
      \o [i \in 1..count("Tcp") |->
            Box("Tcp", unwrap_or_else(found.tcp, TcpHeader_default))]
      \o [i \in 1..count("Udp") |->
            Box("Udp", unwrap_or_else(found.udp, UdpHeader_default))]

\* the mutant of Headers_new that looks for TCP and UDP only when IPv4 is in
\* the stack
Headers_new_needsIpv4(packet, stack) ==
  LET found == Demux(packet)
      wanted == \E i \in 1..Len(stack) : stack[i] = "Ipv4"
  IN  [i \in 1..Len(stack) |->
         CASE stack[i] = "Ipv4" ->
                Box("Ipv4", unwrap_or_else(found.ipv4, Ipv4Header_default))
           [] stack[i] = "Tcp" ->
                Box("Tcp", IF wanted THEN unwrap_or_else(found.tcp, TcpHeader_default)
                           ELSE TcpHeader_default)
           [] stack[i] = "Udp" ->
                Box("Udp", IF wanted THEN unwrap_or_else(found.udp, UdpHeader_default)
                           ELSE UdpHeader_default)]

\* Headers::new
Headers_new(packet, stack) ==
  LET found == Demux(packet)
  IN  [i \in 1..Len(stack) |->
         CASE stack[i] = "Ipv4" ->
                Box("Ipv4", unwrap_or_else(found.ipv4, Ipv4Header_default))
           [] stack[i] = "Tcp" ->
                Box("Tcp", unwrap_or_else(found.tcp, TcpHeader_default))
           [] stack[i] = "Udp" ->
                Box("Udp", unwrap_or_else(found.udp, UdpHeader_default))]

---------------------------------------------------------------------------
(* Field names.                                                            *)

\* the mutant of FieldName that numbers the bits of a field from 1
FieldName_oneBased(name, i) == name \o "_" \o ToString(i + 1)

\* format!("{}_{}", name, i)
FieldName(name, i) == name \o "_" \o ToString(i)

\* fields.iter().flat_map(|(name, bits)| (0..*bits).map(move |i| format!(..)))
RECURSIVE FlatMapFields(_)
FlatMapFields(fields) ==
  IF fields = <<>> THEN <<>>
  ELSE [k \in 1..Head(fields)[2] |-> FieldName(Head(fields)[1], k - 1)]
         \o FlatMapFields(Tail(fields))

\* Ipv4Header::get_headers
Ipv4Header_get_headers ==
  FlatMapFields(<<
    <<"ipv4_ver", 4>>, <<"ipv4_hl", 4>>, <<"ipv4_tos", 8>>, <<"ipv4_tl", 16>>,
    <<"ipv4_id", 16>>, <<"ipv4_rbit", 1>>, <<"ipv4_dfbit", 1>>,
    <<"ipv4_mfbit", 1>>, <<"ipv4_foff", 13>>, <<"ipv4_ttl", 8>>,
    <<"ipv4_proto", 8>>, <<"ipv4_cksum", 16>>, <<"ipv4_src", 32>>,
    <<"ipv4_dst", 32>>, <<"ipv4_opt", 320>> >>)

\* TcpHeader::get_headers
TcpHeader_get_headers ==
  FlatMapFields(<<
    <<"tcp_sprt", 16>>, <<"tcp_dprt", 16>>, <<"tcp_seq", 32>>, <<"tcp_ackn", 32>>,
    <<"tcp_doff", 4>>, <<"tcp_res", 3>>, <<"tcp_ns", 1>>, <<"tcp_cwr", 1>>,
    <<"tcp_ece", 1>>, <<"tcp_urg", 1>>, <<"tcp_ackf", 1>>, <<"tcp_psh", 1>>,
    <<"tcp_rst", 1>>, <<"tcp_syn", 1>>, <<"tcp_fin", 1>>, <<"tcp_wsize", 16>>,
    <<"tcp_cksum", 16>>, <<"tcp_urp", 16>>, <<"tcp_opt", 320>> >>)

\* UdpHeader::get_headers
UdpHeader_get_headers ==
  FlatMapFields(<<
    <<"udp_sport", 16>>, <<"udp_dport", 16>>, <<"udp_len", 16>>,
    <<"udp_cksum", 16>> >>)

---------------------------------------------------------------------------
(* Anonymization.                                                          *)

\* the mutant of Ipv4Header_remove that takes the positions out of the vector
Ipv4Header_remove_drain(header, start, end) ==
  SubSeq(header, 1, start) \o SubSeq(header, end + 2, Len(header))

\* Ipv4Header::remove: self.data[start..=end].fill(0.)
Ipv4Header_remove(header, start, end) ==
  [k \in 1..Len(header) |-> IF start <= k - 1 /\ k - 1 <= end THEN 0 ELSE header[k]]

\* TcpHeader::remove: self.data[start..=end].fill(0.)
TcpHeader_remove(header, start, end) ==
  [k \in 1..Len(header) |-> IF start <= k - 1 /\ k - 1 <= end THEN 0 ELSE header[k]]

\* the mutant of Ipv4Header_anonymize that clears the source address only
Ipv4Header_anonymize_srcOnly(header) == Ipv4Header_remove(header, 96, 127)

\* Ipv4Header::anonymize
Ipv4Header_anonymize(header) ==
  Ipv4Header_remove(Ipv4Header_remove(header, 96, 127), 128, 159)

\* TcpHeader::anonymize
TcpHeader_anonymize(header) ==
  TcpHeader_remove(TcpHeader_remove(header, 0, 15), 16, 31)

\* UdpHeader has nothing to remove
UdpHeader_anonymize(header) == header

\* header.anonymize() on a Box<dyn PacketHeader>
PacketHeader_anonymize(box) ==
  CASE box.kind = "Ipv4" -> Box("Ipv4", Ipv4Header_anonymize(box.data))
    [] box.kind = "Tcp" -> Box("Tcp", TcpHeader_anonymize(box.data))
    [] box.kind = "Udp" -> Box("Udp", UdpHeader_anonymize(box.data))

---------------------------------------------------------------------------
(* Nprint.                                                                 *)

\* Nprint::new
Nprint_new(packet, stack) ==
  [data |-> <<Headers_new(packet, stack)>>, protocols |-> stack, nb_pkt |-> 1]

\* the inner loop of Nprint::print: one packet's vectors, one after the other
RECURSIVE PrintHeaders(_)
PrintHeaders(header) ==
  IF header = <<>> THEN <<>> ELSE Head(header).data \o PrintHeaders(Tail(header))

\* the outer loop of Nprint::print over self.data
RECURSIVE PrintData(_)
PrintData(packets) ==
  IF packets = <<>> THEN <<>>
  ELSE PrintHeaders(Head(packets)) \o PrintData(Tail(packets))

\* the mutant of Nprint_print that returns the first packet only
Nprint_print_firstOnly(self) == PrintHeaders(Head(self.data))

\* Nprint::print
Nprint_print(self) == PrintData(self.data)

\* the mutant of Nprint_add that forgets the counter
Nprint_add_noCount(self, packet) ==
  [self EXCEPT !.data = Append(self.data, Headers_new(packet, self.protocols))]

\* the mutant of Nprint_add that puts the new packet first
Nprint_add_prepend(self, packet) ==
  [self EXCEPT !.data = <<Headers_new(packet, self.protocols)>> \o self.data,
               !.nb_pkt = self.nb_pkt + 1]

\* the mutant of Nprint_add that walks the stack from its last entry
Nprint_add_reverseStack(self, packet) ==
  LET reversed == [i \in 1..Len(self.protocols) |->
                     self.protocols[Len(self.protocols) + 1 - i]]
  IN  [self EXCEPT !.data = Append(self.data, Headers_new(packet, reversed)),
                   !.nb_pkt = self.nb_pkt + 1]

\* the mutant of Nprint_add that keeps the previous packet's vector for a
\* protocol the new frame does not carry
Nprint_add_carryOver(self, packet) ==
  LET new == Headers_new(packet, self.protocols)
      last == self.data[Len(self.data)]
      absent(i) == \A k \in 1..Len(new[i].data) : new[i].data[k] = -1
  IN  [self EXCEPT !.data = Append(self.data,
                              [i \in 1..Len(new) |->
                                 IF absent(i) THEN last[i] ELSE new[i]]),
                   !.nb_pkt = self.nb_pkt + 1]

\* Nprint::add
Nprint_add(self, packet) ==
  [self EXCEPT !.data = Append(self.data, Headers_new(packet, self.protocols)),
               !.nb_pkt = self.nb_pkt + 1]

\* Nprint::count
Nprint_count(self) == self.nb_pkt

\* the loop of Nprint::get_headers over self.protocols
RECURSIVE GetHeadersOf(_)
GetHeadersOf(stack) ==
  IF stack = <<>> THEN <<>>
  ELSE (CASE Head(stack) = "Ipv4" -> Ipv4Header_get_headers
          [] Head(stack) = "Tcp" -> TcpHeader_get_headers
          [] Head(stack) = "Udp" -> UdpHeader_get_headers)
       \o GetHeadersOf(Tail(stack))

\* Nprint::get_headers
Nprint_get_headers(self) == GetHeadersOf(self.protocols)

\* the mutant of Nprint_anonymize that stops after the first packet
Nprint_anonymize_firstOnly(self) ==
  [self EXCEPT !.data =
     [j \in 1..Len(self.data) |->
        IF j = 1
        THEN [i \in 1..Len(self.data[j]) |-> PacketHeader_anonymize(self.data[j][i])]
        ELSE self.data[j]]]

\* Nprint::anonymize
Nprint_anonymize(self) ==
  [self EXCEPT !.data =
     [j \in 1..Len(self.data) |->
        [i \in 1..Len(self.data[j]) |-> PacketHeader_anonymize(self.data[j][i])]]]

---------------------------------------------------------------------------
(* Panics: indexing a slice past its end stops the program.                *)

\* packet[i] panics unless i < packet.len()
IndexPanics(packet, indexes) == \E i \in indexes : i >= Len(packet)

\* the indexes Ipv4Header::new reads packet at, line by line
Ipv4Header_new_indexes ==
  {0, 1}
  \cup {2 + (i \div 8) : i \in 0..15} \cup {4 + (i \div 8) : i \in 0..15}
  \cup {6, 7, 8, 9}
  \cup {10 + (i \div 8) : i \in 0..15}
  \cup {12 + (i \div 8) : i \in 0..31} \cup {16 + (i \div 8) : i \in 0..31}

\* the indexes TcpHeader::new reads packet at, line by line
TcpHeader_new_indexes ==
  {i \div 8 : i \in 0..15} \cup {2 + (i \div 8) : i \in 0..15}
  \cup {4 + (i \div 8) : i \in 0..31} \cup {8 + (i \div 8) : i \in 0..31}
  \cup {12, 13}
  \cup {14 + (i \div 8) : i \in 0..15} \cup {16 + (i \div 8) : i \in 0..15}
  \cup {18 + (i \div 8) : i \in 0..15}

\* the indexes UdpHeader::new reads packet at, line by line
UdpHeader_new_indexes ==
  {i \div 8 : i \in 0..15} \cup {2 + (i \div 8) : i \in 0..15}
  \cup {4 + (i \div 8) : i \in 0..15} \cup {6 + (i \div 8) : i \in 0..15}

\* Ipv4Header::new panics: the view was made and a read is past the end
Ipv4Header_new_panics(packet) ==
  /\ IsSome(Ipv4Packet_new(packet))
  /\ IndexPanics(Unwrap(Ipv4Packet_new(packet)), Ipv4Header_new_indexes)

\* TcpHeader::new panics
TcpHeader_new_panics(packet) ==
  /\ IsSome(TcpPacket_new(packet))
  /\ IndexPanics(Unwrap(TcpPacket_new(packet)), TcpHeader_new_indexes)

\* UdpHeader::new panics
UdpHeader_new_panics(packet) ==
  /\ IsSome(UdpPacket_new(packet))
  /\ IndexPanics(Unwrap(UdpPacket_new(packet)), UdpHeader_new_indexes)

\* Headers::new panics: one of the dissectors it calls does
Headers_new_panics(packet) ==
  LET eth == EthernetPacket_new(packet)
      ethernet == Unwrap(eth)
      vlan == VlanPacket_new(Ethernet_payload(ethernet))
      popped == Ethernet_get_ethertype(ethernet) = EtherTypes_Vlan /\ IsSome(vlan)
      ethertype == IF popped THEN Vlan_get_ethertype(Unwrap(vlan))
                   ELSE Ethernet_get_ethertype(ethernet)
      payload == IF popped THEN Vlan_payload(Unwrap(vlan))
                 ELSE Ethernet_payload(ethernet)
      isIpv4 == IsSome(eth) /\ ethertype = EtherTypes_Ipv4
                  /\ IsSome(Ipv4Packet_new(payload))
      ipv4_packet == Unwrap(Ipv4Packet_new(payload))
  IN  /\ isIpv4
      /\ \/ Ipv4Header_new_panics(payload)
         \/ /\ Ipv4_get_next_level_protocol(ipv4_packet) = IpNextHeaderProtocols_Tcp
            /\ TcpHeader_new_panics(Ipv4_payload(ipv4_packet))
         \/ /\ Ipv4_get_next_level_protocol(ipv4_packet) = IpNextHeaderProtocols_Udp
            /\ UdpHeader_new_panics(Ipv4_payload(ipv4_packet))

\* self.data[start..=end] panics unless start <= end + 1 and end < len
Ipv4Header_remove_panics(header, start, end) ==
  start > end + 1 \/ end >= Len(header)

TcpHeader_remove_panics(header, start, end) ==
  start > end + 1 \/ end >= Len(header)

\* Ipv4Header::anonymize panics: one of its two removes does
Ipv4Header_anonymize_panics(header) ==
  \/ Ipv4Header_remove_panics(header, 96, 127)
  \/ Ipv4Header_remove_panics(Ipv4Header_remove(header, 96, 127), 128, 159)

\* TcpHeader::anonymize panics
TcpHeader_anonymize_panics(header) ==
  \/ TcpHeader_remove_panics(header, 0, 15)
  \/ TcpHeader_remove_panics(TcpHeader_remove(header, 0, 15), 16, 31)

\* header.anonymize() on a Box<dyn PacketHeader> panics
PacketHeader_anonymize_panics(box) ==
  CASE box.kind = "Ipv4" -> Ipv4Header_anonymize_panics(box.data)
    [] box.kind = "Tcp" -> TcpHeader_anonymize_panics(box.data)
    [] box.kind = "Udp" -> FALSE

\* Nprint::new and Nprint::add panic when Headers::new does
Nprint_new_panics(packet, stack) == Headers_new_panics(packet)

Nprint_add_panics(self, packet) == Headers_new_panics(packet)

\* Nprint::anonymize panics when it does for one of the stored headers
Nprint_anonymize_panics(self) ==
  \E j \in 1..Len(self.data) :
    \E i \in 1..Len(self.data[j]) : PacketHeader_anonymize_panics(self.data[j][i])

---------------------------------------------------------------------------
(* Byte slices the dissectors are tried on.                                *)

\* ipv4.rs test_ipv4_header_creation: an IPv4 header without options and the
\* TCP header it carries
Ipv4Test ==
  <<69, 0, 0, 60, 245, 27, 64, 0, 64, 6, 27, 36, 192, 168, 43, 37,
    198, 38, 120, 136, 151, 164, 1, 187, 150, 46, 94, 11, 0, 0, 0, 0,
    160, 2, 114, 16, 37, 212, 0, 0, 2, 4, 5, 180, 4, 2, 8, 10,
    227, 226, 20, 35, 0, 0, 0, 0, 1, 3, 3, 7>>

\* ipv4.rs test_ipv4_header_options: an IPv4 header with 24 bytes of options
Ipv4OptTest ==
  <<75, 0, 0, 108, 120, 55, 0, 0, 64, 1, 117, 45, 127, 0, 0, 1,
    127, 0, 0, 1, 134, 22, 0, 0, 0, 2, 2, 16, 0, 2, 0, 0,
    0, 2, 0, 4, 0, 5, 0, 6, 0, 239, 0, 0>>

\* tcp.rs test_tcp_header_creation: a TCP header with 12 bytes of options
TcpTest ==
  <<222, 146, 1, 187, 114, 7, 246, 160, 0, 0, 0, 0, 128, 2, 32, 0,
    5, 36, 0, 0, 2, 4, 5, 180, 1, 3, 3, 2, 1, 1, 4, 2>>

\* udp.rs test_udp_header_creation
UdpTest == <<225, 21, 225, 21, 0, 52, 133, 0>>

Prefixes(s) == {SubSeq(s, 1, n) : n \in 0..Len(s)}
WithByte(s, i, v) == [s EXCEPT ![i + 1] = v]

\* first bytes: version 4, 6, 0 and 15 with header lengths 0, 4, 5, 6 and 15
FirstBytes == {69, 101, 64, 68, 70, 79, 0, 255, 5}
\* bytes 12 of a TCP header: data offsets 0, 4, 5, 6 and 15
DataOffsetBytes == {0, 64, 80, 96, 240, 241}

Slices ==
       Prefixes(Ipv4Test) \cup Prefixes(Ipv4OptTest)
  \cup Prefixes(TcpTest) \cup Prefixes(UdpTest)
  \cup {WithByte(Ipv4Test, 0, v) : v \in FirstBytes}
  \cup {WithByte(SubSeq(Ipv4Test, 1, 20), 0, v) : v \in FirstBytes}
  \cup {WithByte(Ipv4Test, 12, v) : v \in DataOffsetBytes}
  \cup {WithByte(SubSeq(TcpTest, 1, 20), 12, v) : v \in DataOffsetBytes}
  \cup {WithByte(Ipv4Test, 6, v) : v \in {32, 128, 31}}
  \cup {Filled(n, v) : n \in {7, 8, 19, 20, 60, 61}, v \in {0, 255, 170, 85}}

---------------------------------------------------------------------------
(* SpecDissect: the three dissectors applied to a byte slice.              *)

NprintUnused ==
  /\ protocols = <<>>
  /\ data = <<>>
  /\ nb_pkt = 0
  /\ ret = <<>>
  /\ fed = <<>>
  /\ anonymized = FALSE

InitDissect ==
  /\ arg \in Slices
  /\ argStack = <<>>
  /\ op = "init"
  /\ out = <<>>
  /\ NprintUnused

CallIpv4HeaderNew ==
  /\ op' = IF Ipv4Header_new_panics(arg) THEN "panic" ELSE "Ipv4Header::new"
  /\ out' = IF Ipv4Header_new_panics(arg) THEN <<>> ELSE Ipv4Header_new(arg)
  /\ UNCHANGED <<protocols, data, nb_pkt, ret, arg, argStack, fed, anonymized>>

CallTcpHeaderNew ==
  /\ op' = IF TcpHeader_new_panics(arg) THEN "panic" ELSE "TcpHeader::new"
  /\ out' = IF TcpHeader_new_panics(arg) THEN <<>> ELSE TcpHeader_new(arg)
  /\ UNCHANGED <<protocols, data, nb_pkt, ret, arg, argStack, fed, anonymized>>

CallUdpHeaderNew ==
  /\ op' = IF UdpHeader_new_panics(arg) THEN "panic" ELSE "UdpHeader::new"
  /\ out' = IF UdpHeader_new_panics(arg) THEN <<>> ELSE UdpHeader_new(arg)
  /\ UNCHANGED <<protocols, data, nb_pkt, ret, arg, argStack, fed, anonymized>>

\* get_options_bits of ipv4.rs on the slice taken as raw options
CallIpv4GetOptionsBits ==
  /\ op' = "ipv4::get_options_bits"
  /\ out' = Ipv4_get_options_bits(arg)
  /\ UNCHANGED <<protocols, data, nb_pkt, ret, arg, argStack, fed, anonymized>>

\* get_options_bits of tcp.rs on the slice taken as raw options
CallTcpGetOptionsBits ==
  /\ op' = "tcp::get_options_bits"
  /\ out' = Tcp_get_options_bits(arg)
  /\ UNCHANGED <<protocols, data, nb_pkt, ret, arg, argStack, fed, anonymized>>

NextDissect ==
  \/ CallIpv4HeaderNew \/ CallTcpHeaderNew \/ CallUdpHeaderNew
  \/ CallIpv4GetOptionsBits \/ CallTcpGetOptionsBits

SpecDissect == InitDissect /\ [][NextDissect]_vars

---------------------------------------------------------------------------
(* Claims about the dissectors.                                            *)

\* bit (7 - k mod 8) of byte (k div 8) of a slice, k counted from 0
WireBit(slice, k) == Bit(At(slice, k \div 8), 7 - (k % 8))

\* C2: whatever the slice, Ipv4Header::new returns 480 values, TcpHeader::new
\* 480 values and UdpHeader::new 64 values, and the three default vectors have
\* these lengths too.
C2_DissectorWidths ==
  /\ op = "Ipv4Header::new" => Len(out) = 480 /\ Len(Ipv4Header_default) = Len(out)
  /\ op = "TcpHeader::new" => Len(out) = 480 /\ Len(TcpHeader_default) = Len(out)
  /\ op = "UdpHeader::new" => Len(out) = 64 /\ Len(UdpHeader_default) = Len(out)

\* C2 witness: an IPv4 slice that carries options was dissected
C2_Witness ==
  /\ op = "Ipv4Header::new"
  /\ Len(arg) >= 20
  /\ Len(Ipv4_get_options_raw(arg)) > 0
  /\ Len(out) = 480

\* C3: a slice shorter than the fixed header (20 bytes for IPv4 and TCP, 8 for
\* UDP) gives the vector of 480 / 480 / 64 values that are all -1.
C3_ShortGivesDefault ==
  /\ op = "Ipv4Header::new" /\ Len(arg) < 20
       => Len(out) = 480 /\ \A k \in 1..480 : out[k] = -1
  /\ op = "TcpHeader::new" /\ Len(arg) < 20
       => Len(out) = 480 /\ \A k \in 1..480 : out[k] = -1
  /\ op = "UdpHeader::new" /\ Len(arg) < 8
       => Len(out) = 64 /\ \A k \in 1..64 : out[k] = -1

\* C3 witness: a 19-byte slice was handed to the IPv4 dissector
C3_Witness ==
  /\ op = "Ipv4Header::new"
  /\ Len(arg) = 19
  /\ out = Filled(480, -1)

\* C4: a slice that is long enough but malformed (IPv4 version other than 4 or
\* header length below 5, TCP data offset below 5) gives the all -1 default.
C4_MalformedGivesDefault ==
  /\ op = "Ipv4Header::new" /\ Len(arg) >= 20
       /\ (At(arg, 0) \div 16 # 4 \/ At(arg, 0) % 16 < 5)
       => out = Filled(480, -1)
  /\ op = "TcpHeader::new" /\ Len(arg) >= 20 /\ At(arg, 12) \div 16 < 5
       => out = Filled(480, -1)

\* C5: for an IPv4 slice of at least 20 bytes, position k < 160 of the output
\* is bit (7 - k mod 8) of byte (k div 8), and 320 option positions follow.
C5_Ipv4Layout ==
  op = "Ipv4Header::new" /\ Len(arg) >= 20
    => /\ Len(out) = 160 + 320
       /\ \A k \in 0..159 : out[k + 1] = WireBit(arg, k)

\* C5 witness: a header with more-fragments set and don't-fragment clear
C5_Witness ==
  /\ op = "Ipv4Header::new"
  /\ Len(arg) >= 20
  /\ out[48 + 1] = 0 /\ out[49 + 1] = 0 /\ out[50 + 1] = 1

\* C6: for a TCP slice of at least 20 bytes, position k < 160 of the output is
\* bit (7 - k mod 8) of byte (k div 8), and 320 option positions follow.
C6_TcpLayout ==
  op = "TcpHeader::new" /\ Len(arg) >= 20
    => /\ Len(out) = 160 + 320
       /\ \A k \in 0..159 : out[k + 1] = WireBit(arg, k)

\* C6 witness: a header with data offset 8 and only SYN set
C6_Witness ==
  /\ op = "TcpHeader::new"
  /\ Len(arg) >= 20
  /\ SubSeq(out, 97, 100) = <<1, 0, 0, 0>>
  /\ SubSeq(out, 101, 112) = <<0, 0, 0, 0, 0, 0, 0, 0, 0, 0, 1, 0>>

\* C7: for a UDP slice of at least 8 bytes the 64 positions are the first 64
\* bits of the slice, most-significant bit first: none is -1 and the bytes
\* after the eighth play no part.
C7_UdpLayout ==
  op = "UdpHeader::new" /\ Len(arg) >= 8
    => /\ Len(out) = 64
       /\ \A k \in 0..63 : out[k + 1] = WireBit(SubSeq(arg, 1, 8), k)
       /\ \A k \in 1..64 : out[k] # -1

\* C7 witness: a slice longer than 8 bytes whose bytes 8 and 9 differ from its
\* bytes 6 and 7
C7_Witness ==
  /\ op = "UdpHeader::new"
  /\ Len(arg) >= 10
  /\ SubSeq(arg, 9, 10) # SubSeq(arg, 7, 8)
  /\ Len(out) = 64

---------------------------------------------------------------------------
(* Frames Headers::new is tried on.                                        *)

\* lib.rs, the example of Nprint::new: Ethernet, IPv4, TCP with 20 bytes of
\* options
DocPacket ==
  <<0, 0, 0, 0, 0, 0, 0, 0, 0, 0, 0, 0, 8, 0, 69, 0,
    0, 60, 245, 27, 64, 0, 64, 6, 27, 36, 192, 168, 43, 37, 198, 38,
    120, 136, 151, 164, 1, 187, 150, 46, 94, 11, 0, 0, 0, 0, 160, 2,
    114, 16, 37, 212, 0, 0, 2, 4, 5, 180, 4, 2, 8, 10, 227, 226,
    20, 35, 0, 0, 0, 0, 1, 3, 3, 7>>

\* benches/benchmark.rs: Ethernet, one VLAN tag, IPv4 of total length 72, UDP,
\* and 16 bytes after the end of the datagram
BenchPacket ==
  <<0, 0, 0, 0, 0, 0, 0, 0, 0, 0, 0, 0, 129, 0, 32, 69,
    8, 0, 69, 0, 0, 72, 111, 205, 64, 0, 64, 17, 70, 29, 172, 16,
    12, 155, 172, 16, 31, 255, 225, 21, 225, 21, 0, 52, 133, 0, 83, 112,
    111, 116, 85, 100, 112, 48, 158, 97, 66, 61, 17, 153, 153, 238, 0, 1,
    0, 4, 72, 149, 194, 3, 88, 192, 77, 90, 222, 146, 1, 187, 114, 7,
    246, 160, 0, 0, 0, 0, 128, 2, 32, 0, 5, 36, 0, 0, 2, 4,
    5, 180, 1, 3, 3, 2, 1, 1, 4, 2>>

\* an Ethernet header of the given type before a payload
EthernetFrame(ethertype, payload) ==
  <<0, 0, 0, 0, 0, 0, 0, 0, 0, 0, 0, 0, ethertype \div 256, ethertype % 256>>
    \o payload

\* a VLAN tag of the given inner type before a payload
VlanTag(ethertype, payload) ==
  <<32, 69, ethertype \div 256, ethertype % 256>> \o payload

Frames ==
       Prefixes(DocPacket) \cup Prefixes(BenchPacket)
  \* other types of Ethernet payload: ARP, IPv6, 0
  \cup {EthernetFrame(t, Ipv4Test) : t \in {2054, 34525, 0, 8}}
  \* other protocols above IPv4: ICMP, TCP, UDP, 0
  \cup {WithByte(DocPacket, 14 + 9, v) : v \in {0, 1, 6, 17}}
  \cup {WithByte(BenchPacket, 18 + 9, v) : v \in {0, 1, 6, 17}}
  \* IPv4 headers of other versions and header lengths
  \cup {WithByte(DocPacket, 14, v) : v \in FirstBytes}
  \* IPv4 total lengths shorter and longer than the frame
  \cup {WithByte(DocPacket, 14 + 3, v) : v \in {0, 19, 20, 30, 40, 59, 60, 255}}
  \* TCP data offsets
  \cup {WithByte(DocPacket, 34 + 12, v) : v \in DataOffsetBytes}
  \* IPv4 with options
  \cup {EthernetFrame(EtherTypes_Ipv4, Ipv4OptTest)}
  \cup {EthernetFrame(EtherTypes_Ipv4, WithByte(Ipv4OptTest, 9, v) \o TcpTest) : v \in {6, 17}}
  \* one tag, two tags, a tag on something else
  \cup {EthernetFrame(EtherTypes_Vlan, VlanTag(EtherTypes_Ipv4, Ipv4Test)),
        EthernetFrame(EtherTypes_Vlan,
                      VlanTag(EtherTypes_Vlan, VlanTag(EtherTypes_Ipv4, Ipv4Test))),
        EthernetFrame(EtherTypes_Vlan, VlanTag(2054, Ipv4Test)),
        EthernetFrame(EtherTypes_Vlan, SubSeq(Ipv4Test, 1, 3))}
  \cup {Filled(n, v) : n \in {13, 14, 34, 54}, v \in {0, 255}}

\* every stack of at most MaxStack protocols, repetitions included
Stacks == UNION {[1..n -> ProtocolType] : n \in 0..MaxStack}

---------------------------------------------------------------------------
(* SpecHeaders: Headers::new applied to a frame and a stack.               *)

InitHeaders ==
  /\ arg \in Frames
  /\ argStack \in Stacks
  /\ op = "init"
  /\ out = <<>>
  /\ NprintUnused

CallHeadersNew ==
  /\ op' = IF Headers_new_panics(arg) THEN "panic" ELSE "Headers::new"
  /\ out' = IF Headers_new_panics(arg) THEN <<>> ELSE Headers_new(arg, argStack)
  /\ UNCHANGED <<protocols, data, nb_pkt, ret, arg, argStack, fed, anonymized>>

NextHeaders == CallHeadersNew

SpecHeaders == InitHeaders /\ [][NextHeaders]_vars

---------------------------------------------------------------------------
(* Claims about Headers::new.                                              *)

\* the width the specification declares for a protocol
DeclaredWidth(proto) ==
  CASE proto = "Ipv4" -> 480 [] proto = "Tcp" -> 480 [] proto = "Udp" -> 64

\* the sum of the declared widths of a stack
RECURSIVE StackWidth(_)
StackWidth(stack) ==
  IF stack = <<>> THEN 0 ELSE DeclaredWidth(Head(stack)) + StackWidth(Tail(stack))

\* the number of values a set of headers holds
RECURSIVE HeadersWidth(_)
HeadersWidth(headers) ==
  IF headers = <<>> THEN 0 ELSE Len(Head(headers).data) + HeadersWidth(Tail(headers))

\* C1: whatever the frame, the set built by Headers::new holds one vector per
\* entry of the stack and its total width is the sum of the declared widths
\* of the stack (Ipv4 480, Tcp 480, Udp 64).
C1_WidthFromStackOnly ==
  op = "Headers::new"
    => /\ Len(out) = Len(argStack)
       /\ HeadersWidth(out) = StackWidth(argStack)

\* C1 witness: a frame too short to be an Ethernet frame under a stack of two
\* protocols
C1_Witness ==
  /\ op = "Headers::new"
  /\ Len(arg) < 14
  /\ Len(argStack) = 2
  /\ HeadersWidth(out) = StackWidth(argStack)

\* the slices the demultiplexer surfaces for a frame, step by step: the
\* Ethernet payload, or the payload of its one VLAN tag, when its type is
\* IPv4 and it holds an IPv4 header; the IPv4 payload for TCP or for UDP
\* according to the next-protocol field
FoundSlice(proto, frame) ==
  LET tagged == Len(frame) >= 14 + 4 /\ SubSeq(frame, 13, 14) = <<129, 0>>
      l3type == IF tagged THEN SubSeq(frame, 17, 18) ELSE SubSeq(frame, 13, 14)
      l3 == IF tagged THEN SubSeq(frame, 19, Len(frame))
            ELSE SubSeq(frame, 15, Len(frame))
      ip == Len(frame) >= 14 /\ l3type = <<8, 0>> /\ Len(l3) >= 20
  IN  CASE proto = "Ipv4" -> IF ip THEN Some(l3) ELSE None
        [] proto = "Tcp" -> IF ip /\ l3[10] = 6 THEN Some(Ipv4_payload(l3)) ELSE None
        [] proto = "Udp" -> IF ip /\ l3[10] = 17 THEN Some(Ipv4_payload(l3)) ELSE None

\* the dissector of a protocol, and its all -1 default
Dissect(proto, slice) ==
  CASE proto = "Ipv4" -> Ipv4Header_new(slice)
    [] proto = "Tcp" -> TcpHeader_new(slice)
    [] proto = "Udp" -> UdpHeader_new(slice)

\* the encoding of a protocol for a frame: the dissector on the slice found,
\* all -1 when there is none
Encoding(proto, frame) ==
  IF IsSome(FoundSlice(proto, frame))
  THEN Dissect(proto, Unwrap(FoundSlice(proto, frame)))
  ELSE Filled(DeclaredWidth(proto), -1)

\* C8: the i-th vector of the set is the encoding of the i-th protocol of the
\* stack: the dissector's output on the slice found for it, or all -1 when
\* the frame has none; the vectors are in the order of the stack.
C8_VectorsFollowStack ==
  op = "Headers::new"
    => /\ Len(out) = Len(argStack)
       /\ \A i \in 1..Len(argStack) :
            /\ out[i].kind = argStack[i]
            /\ out[i].data = Encoding(argStack[i], arg)

\* C8 witness: under the stack [Tcp, Ipv4] a TCP frame puts the TCP positions
\* before the IPv4 positions, neither being the default
C8_Witness ==
  /\ op = "Headers::new"
  /\ argStack = <<"Tcp", "Ipv4">>
  /\ arg = DocPacket
  /\ out[1].data = TcpHeader_new(SubSeq(DocPacket, 35, 74))
  /\ out[2].data = Ipv4Header_new(SubSeq(DocPacket, 15, 74))
  /\ out[1].data # out[2].data
  /\ out[1].data[1] # -1 /\ out[2].data[1] # -1

---------------------------------------------------------------------------
(* Spec: an Nprint from Nprint::new on, under any sequence of calls.       *)

\* test_ipv4_header_bad_header: six bytes, not an Ethernet frame
ShortPacket == <<69, 0, 0, 60, 245, 27>>

\* the frames an Nprint is fed: TCP with options, VLAN and UDP, and a frame
\* that cannot be parsed
NprintFrames == {DocPacket, BenchPacket, ShortPacket}

\* the stacks an Nprint is created with
NprintStacks ==
  {<<>>, <<"Ipv4">>, <<"Tcp">>, <<"Udp">>, <<"Ipv4", "Tcp">>, <<"Tcp", "Ipv4">>,
   <<"Tcp", "Tcp">>, <<"Ipv4", "Tcp", "Udp">>}

Self == [data |-> data, protocols |-> protocols, nb_pkt |-> nb_pkt]

Becomes(self) ==
  /\ data' = self.data
  /\ protocols' = self.protocols
  /\ nb_pkt' = self.nb_pkt

DissectUnused ==
  /\ arg = <<>>
  /\ argStack = <<>>
  /\ out = <<>>

Init ==
  /\ \E packet \in NprintFrames, stack \in NprintStacks :
       IF Nprint_new_panics(packet, stack)
       THEN /\ op = "panic"
            /\ data = <<>> /\ protocols = stack /\ nb_pkt = 0
            /\ fed = <<packet>>
       ELSE /\ op = "new"
            /\ data = Nprint_new(packet, stack).data
            /\ protocols = Nprint_new(packet, stack).protocols
            /\ nb_pkt = Nprint_new(packet, stack).nb_pkt
            /\ fed = <<packet>>
  /\ anonymized = FALSE
  /\ ret = <<>>
  /\ DissectUnused

Add ==
  /\ op # "panic"
  /\ nb_pkt < MaxPkts
  /\ \E packet \in NprintFrames :
       /\ IF Nprint_add_panics(Self, packet)
          THEN op' = "panic" /\ UNCHANGED <<data, protocols, nb_pkt>>
          ELSE op' = "add" /\ Becomes(Nprint_add(Self, packet))
       /\ fed' = Append(fed, packet)
  /\ ret' = <<>>
  /\ UNCHANGED <<arg, argStack, out, anonymized>>

Anonymize ==
  /\ op # "panic"
  /\ IF Nprint_anonymize_panics(Self)
     THEN op' = "panic" /\ UNCHANGED <<data, protocols, nb_pkt>>
     ELSE op' = "anonymize" /\ Becomes(Nprint_anonymize(Self))
  /\ anonymized' = TRUE
  /\ ret' = <<>>
  /\ UNCHANGED <<arg, argStack, out, fed>>

PrintCall ==
  /\ op # "panic"
  /\ op' = "print"
  /\ ret' = Nprint_print(Self)
  /\ UNCHANGED <<protocols, data, nb_pkt, arg, argStack, out, fed, anonymized>>

Count ==
  /\ op # "panic"
  /\ op' = "count"
  /\ ret' = Nprint_count(Self)
  /\ UNCHANGED <<protocols, data, nb_pkt, arg, argStack, out, fed, anonymized>>

GetHeaders ==
  /\ op # "panic"
  /\ op' = "get_headers"
  /\ ret' = Nprint_get_headers(Self)
  /\ UNCHANGED <<protocols, data, nb_pkt, arg, argStack, out, fed, anonymized>>

Next == Add \/ Anonymize \/ PrintCall \/ Count \/ GetHeaders

Spec == Init /\ [][Next]_vars

---------------------------------------------------------------------------
(* Claims about Nprint.                                                    *)

\* C9: count() is the number of stored sets of headers: 1 right after new,
\* one more after each add, and unchanged by every other operation.
C9_CountIsStored ==
  /\ [](/\ nb_pkt = Len(data)
        /\ Nprint_count(Self) = Len(data)
        /\ (op = "count" => ret = Len(data))
        /\ (op = "new" => Nprint_count(Self) = 1))
  /\ [][/\ op' = "add" => Nprint_count(Self)' = Nprint_count(Self) + 1
        /\ op' # "add" => Nprint_count(Self)' = Nprint_count(Self)]_vars

\* C9 witness: count() returned 2 for an Nprint of a non-empty stack that holds
\* two sets of headers, one from new and one from add
C9_Witness ==
  /\ op = "count"
  /\ ret = 2
  /\ Len(data) = 2
  /\ Len(protocols) > 0

\* C10: get_headers() has as many names as the declared widths of the stack
\* add up to, however many packets are stored, and print() has count() times
\* that many values.
C10_Lengths ==
  /\ op = "get_headers" => Len(ret) = StackWidth(protocols)
  /\ op = "print" => Len(ret) = Nprint_count(Self) * Len(Nprint_get_headers(Self))
  /\ Len(Nprint_print(Self)) = Nprint_count(Self) * StackWidth(protocols)

\* C10 witness: new with [Ipv4, Tcp, Udp] and two adds, then print: count 3 and
\* 3 x 1024 values
C10_Witness ==
  /\ op = "print"
  /\ protocols = <<"Ipv4", "Tcp", "Udp">>
  /\ Nprint_count(Self) = 3
  /\ Len(ret) = 3 * (480 + 480 + 64)

---------------------------------------------------------------------------
(* Claims about the order and the frame of the operations.                 *)

\* the i-th block of the given width of a flat sequence
Block(flat, i, width) == SubSeq(flat, (i - 1) * width + 1, i * width)

\* C11: print() is packet-major and append-only.  As long as anonymize has not
\* been called, the i-th block of print() is what the i-th frame given to new
\* and add encodes to on its own under the stack; add appends one block at the
\* end and leaves the stored sets of headers as they were; print, count and
\* get_headers leave the Nprint as it was.
C11_PacketMajorAppendOnly ==
  /\ [](~anonymized =>
          /\ Len(Nprint_print(Self)) = Len(fed) * StackWidth(protocols)
          /\ \A i \in 1..Len(fed) :
               Block(Nprint_print(Self), i, StackWidth(protocols))
                 = PrintHeaders(Headers_new(fed[i], protocols)))
  /\ [][/\ op' = "add" =>
             /\ Len(data') = Len(data) + 1
             /\ SubSeq(data', 1, Len(data)) = data
             /\ Nprint_print(Self)' =
                  Nprint_print(Self)
                    \o PrintHeaders(Headers_new(fed'[Len(fed')], protocols))
        /\ op' \in {"print", "count", "get_headers"} =>
             UNCHANGED <<data, protocols, nb_pkt>>]_vars

\* C11 witness: three different frames were given, to new and to two adds, and
\* print() returned three blocks, the second of them the encoding of the VLAN
\* and UDP frame and unlike the first
C11_Witness ==
  /\ op = "print"
  /\ ~anonymized
  /\ fed = <<DocPacket, BenchPacket, ShortPacket>>
  /\ protocols = <<"Ipv4", "Tcp", "Udp">>
  /\ Block(ret, 2, 1024) = PrintHeaders(Headers_new(BenchPacket, protocols))
  /\ Block(ret, 2, 1024) # Block(ret, 1, 1024)
  /\ Block(ret, 3, 1024) # Block(ret, 2, 1024)

\* the 0-based positions the claim says anonymize clears in a vector
AnonymizedPositions(kind) ==
  CASE kind = "Ipv4" -> 96..159
    [] kind = "Tcp" -> 0..31
    [] kind = "Udp" -> {}

\* C12: anonymize() sets to 0 exactly the positions 96..159 of every stored
\* IPv4 vector and 0..31 of every stored TCP vector, and leaves every other
\* position of every stored vector, the options and the UDP vectors included,
\* as it was.
C12_AnonymizeFrame ==
  [][op' = "anonymize" =>
       /\ Len(data') = Len(data)
       /\ \A j \in 1..Len(data) :
            /\ Len(data'[j]) = Len(data[j])
            /\ \A i \in 1..Len(data[j]) :
                 /\ data'[j][i].kind = data[j][i].kind
                 /\ Len(data'[j][i].data) = Len(data[j][i].data)
                 /\ \A k \in 0..(Len(data[j][i].data) - 1) :
                      data'[j][i].data[k + 1] =
                        IF k \in AnonymizedPositions(data[j][i].kind) THEN 0
                        ELSE data[j][i].data[k + 1]]_vars

\* C12 witness: anonymize ran on the TCP frame and the UDP frame under
\* [Ipv4, Tcp, Udp]: addresses and ports that held a 1 are 0, the version bits,
\* the TCP options and the UDP vector are as the dissectors wrote them
C12_Witness ==
  /\ op = "anonymize"
  /\ fed = <<DocPacket, BenchPacket>>
  /\ protocols = <<"Ipv4", "Tcp", "Udp">>
  /\ \E k \in 97..160 : Headers_new(DocPacket, protocols)[1].data[k] = 1
  /\ \E k \in 1..32 : Headers_new(DocPacket, protocols)[2].data[k] = 1
  /\ \A k \in 97..160 : data[1][1].data[k] = 0 /\ data[2][1].data[k] = 0
  /\ \A k \in 1..32 : data[1][2].data[k] = 0
  /\ SubSeq(data[1][1].data, 1, 4) = <<0, 1, 0, 0>>
  /\ \E k \in 161..480 : data[1][2].data[k] = 1
  /\ data[2][3] = Headers_new(BenchPacket, protocols)[3]
  /\ \E k \in 1..64 : data[2][3].data[k] = 1

\* C13: anonymize() is idempotent: calling it twice leaves the stored vectors,
\* and what print() returns, as calling it once does.
C13_AnonymizeIdempotent ==
  LET once == Nprint_anonymize(Self)
      twice == Nprint_anonymize(once)
  IN /\ twice = once
     /\ Nprint_print(twice) = Nprint_print(once)
     /\ op = "anonymize" => once = Self

\* C13 witness: anonymize has just cleared the addresses and ports of a stored
\* TCP frame, and one more call would leave the Nprint as it is
C13_Witness ==
  /\ op = "anonymize"
  /\ fed[1] = DocPacket
  /\ protocols = <<"Ipv4", "Tcp">>
  /\ data[1] # Headers_new(DocPacket, protocols)
  /\ Nprint_anonymize(Self) = Self

---------------------------------------------------------------------------
(* Claims about failures.                                                  *)

\* C14: no call panics, whatever the frame and the stack.  The dissectors
\* read the bytes 0..19 (IPv4, TCP) or 0..7 (UDP), and only of a slice that
\* passed the length check, so Headers::new, the work of Nprint::new and
\* Nprint::add, never indexes past the end; and anonymize writes inside the
\* vectors Headers::new made.
C14_NoPanic ==
  /\ op # "panic"
  /\ Ipv4Header_new_indexes = 0..19
  /\ TcpHeader_new_indexes = 0..19
  /\ UdpHeader_new_indexes = 0..7
  /\ op = "Headers::new" =>
       \A i \in 1..Len(out) : ~PacketHeader_anonymize_panics(out[i])

\* C14 witness: Headers::new returned for a frame whose IPv4 payload, handed to
\* the TCP dissector, is shorter than the 20 bytes the dissector reads: the
\* IPv4 vector is encoded and the TCP vector is the default
C14_Witness ==
  /\ op = "Headers::new"
  /\ argStack = <<"Ipv4", "Tcp">>
  /\ IsSome(FoundSlice("Tcp", arg))
  /\ Len(Unwrap(FoundSlice("Tcp", arg))) \in 1..19
  /\ out[1].data[2] = 1
  /\ out[2].data = TcpHeader_default

\* C15: Nprint::new rejects an empty protocol stack: it never returns an
\* Nprint whose stack is empty.
C15_EmptyStackRejected == op = "new" => protocols # <<>>

---------------------------------------------------------------------------
(* Claims about the names.                                                 *)

\* the fields of the three headers with the first and the last position, from
\* 0, that the dissector writes each of them at
Ipv4Layout ==
  {<<"ipv4_ver", 0, 3>>, <<"ipv4_hl", 4, 7>>, <<"ipv4_tos", 8, 15>>,
   <<"ipv4_tl", 16, 31>>, <<"ipv4_id", 32, 47>>, <<"ipv4_rbit", 48, 48>>,
   <<"ipv4_dfbit", 49, 49>>, <<"ipv4_mfbit", 50, 50>>, <<"ipv4_foff", 51, 63>>,
   <<"ipv4_ttl", 64, 71>>, <<"ipv4_proto", 72, 79>>, <<"ipv4_cksum", 80, 95>>,
   <<"ipv4_src", 96, 127>>, <<"ipv4_dst", 128, 159>>, <<"ipv4_opt", 160, 479>>}

TcpLayout ==
  {<<"tcp_sprt", 0, 15>>, <<"tcp_dprt", 16, 31>>, <<"tcp_seq", 32, 63>>,
   <<"tcp_ackn", 64, 95>>, <<"tcp_doff", 96, 99>>, <<"tcp_res", 100, 102>>,
   <<"tcp_ns", 103, 103>>, <<"tcp_cwr", 104, 104>>, <<"tcp_ece", 105, 105>>,
   <<"tcp_urg", 106, 106>>, <<"tcp_ackf", 107, 107>>, <<"tcp_psh", 108, 108>>,
   <<"tcp_rst", 109, 109>>, <<"tcp_syn", 110, 110>>, <<"tcp_fin", 111, 111>>,
   <<"tcp_wsize", 112, 127>>, <<"tcp_cksum", 128, 143>>, <<"tcp_urp", 144, 159>>,
   <<"tcp_opt", 160, 479>>}

UdpLayout ==
  {<<"udp_sport", 0, 15>>, <<"udp_dport", 16, 31>>, <<"udp_len", 32, 47>>,
   <<"udp_cksum", 48, 63>>}

LayoutOf(proto) ==
  CASE proto = "Ipv4" -> Ipv4Layout
    [] proto = "Tcp" -> TcpLayout
    [] proto = "Udp" -> UdpLayout

\* the name of position k of a vector: the field it lies in and its distance
\* from the first position of the field
NameAt(proto, k) ==
  LET field == CHOOSE f \in LayoutOf(proto) : f[2] <= k /\ k <= f[3]
  IN  field[1] \o "_" \o ToString(k - field[2])

\* C16: get_headers() returns one name per position of a packet's encoding:
\* for each protocol of the stack, in stack order, the names of its fields in
\* layout order, a field of width w giving <field>_0 .. <field>_<w-1>; the
\* name at position k is that of the field the dissector writes there.
C16_NamesFollowLayout ==
  op = "get_headers" =>
    /\ Len(ret) = StackWidth(protocols)
    /\ \A i \in 1..Len(protocols) :
         \A k \in 0..(DeclaredWidth(protocols[i]) - 1) :
           ret[StackWidth(SubSeq(protocols, 1, i - 1)) + k + 1]
             = NameAt(protocols[i], k)

\* C16 witness: get_headers() of the stack [Tcp, Ipv4]: the TCP names come
\* first, the IPv4 names from position 480 on
C16_Witness ==
  /\ op = "get_headers"
  /\ protocols = <<"Tcp", "Ipv4">>
  /\ ret[1] = "tcp_sprt_0"
  /\ ret[104] = "tcp_ns_0"
  /\ ret[480] = "tcp_opt_319"
  /\ ret[481] = "ipv4_ver_0"
  /\ ret[480 + 51] = "ipv4_mfbit_0"
  /\ ret[480 + 64] = "ipv4_foff_12"
  /\ ret[960] = "ipv4_opt_319"

---------------------------------------------------------------------------
(* Claims about the stack and the values.                                  *)

\* C17: the protocol stack of an Nprint never changes after new, and every
\* stored set of headers is built with it: the same protocols in the same
\* order, and the same total width.
C17_StackFixed ==
  /\ [](\A j \in 1..Len(data) :
          /\ Len(data[j]) = Len(protocols)
          /\ \A i \in 1..Len(protocols) : data[j][i].kind = protocols[i]
          /\ HeadersWidth(data[j]) = StackWidth(protocols))
  /\ [][protocols' = protocols]_vars

\* C17 witness: an Nprint of [Tcp, Ipv4] after new, anonymize and two adds of
\* other frames: three stored sets, the last of them a TCP vector and an IPv4
\* vector like the first
C17_Witness ==
  /\ op = "add"
  /\ anonymized
  /\ protocols = <<"Tcp", "Ipv4">>
  /\ fed = <<DocPacket, BenchPacket, ShortPacket>>
  /\ Len(data) = 3
  /\ data[3][1].kind = "Tcp" /\ data[3][2].kind = "Ipv4"
  /\ data[3] # data[1]

\* C18: the encoding is stateless.  Every stored set of headers is what its
\* own frame encodes to under the stack, the frames given before it
\* notwithstanding, or that with the anonymized positions cleared; as long as
\* anonymize has not been called it is exactly the former, so the same frame
\* given twice is stored as two equal sets.
C18_Stateless ==
  /\ \A j \in 1..Len(data) :
       LET alone == Headers_new(fed[j], protocols)
       IN  \/ data[j] = alone
           \/ data[j] = [i \in 1..Len(alone) |-> PacketHeader_anonymize(alone[i])]
  /\ ~anonymized =>
       /\ \A j \in 1..Len(data) : data[j] = Headers_new(fed[j], protocols)
       /\ \A i, j \in 1..Len(data) : fed[i] = fed[j] => data[i] = data[j]

\* C18 witness: the TCP frame was given again after the UDP frame, and is
\* stored as it was the first time, unlike the UDP frame between them
C18_Witness ==
  /\ op = "add"
  /\ ~anonymized
  /\ protocols = <<"Ipv4", "Tcp", "Udp">>
  /\ fed = <<DocPacket, BenchPacket, DocPacket>>
  /\ data[3] = data[1]
  /\ data[2] # data[1]

\* C19: every value of every stored vector, and of what print() returns, is
\* -1, 0 or 1, in every state, the states after anonymize included.
C19_Ternary ==
  /\ \A j \in 1..Len(data) :
       \A i \in 1..Len(data[j]) :
         \A k \in 1..Len(data[j][i].data) : data[j][i].data[k] \in {-1, 0, 1}
  /\ LET printed == Nprint_print(Self)
     IN  \A k \in 1..Len(printed) : printed[k] \in {-1, 0, 1}
  /\ op = "print" => \A k \in 1..Len(ret) : ret[k] \in {-1, 0, 1}

\* C19 witness: print() after anonymize on the TCP frame with options under
\* [Ipv4, Tcp, Udp] returned all three values: bits that are set, bits that
\* are clear or were cleared, and the -1 of padding and of the absent UDP
C19_Witness ==
  /\ op = "print"
  /\ anonymized
  /\ fed[1] = DocPacket
  /\ protocols = <<"Ipv4", "Tcp", "Udp">>
  /\ {ret[k] : k \in 1..Len(ret)} = {-1, 0, 1}
  /\ \A k \in 97..160 : ret[k] = 0

---------------------------------------------------------------------------
(* Claims about the stack as a selection.                                  *)

\* the stack of all three protocols, and where each of them is in it
FullStack == <<"Ipv4", "Tcp", "Udp">>

PlaceInFullStack(proto) ==
  CASE proto = "Ipv4" -> 1 [] proto = "Tcp" -> 2 [] proto = "Udp" -> 3

\* C20: the vector of a protocol depends on the frame only, not on the other
\* protocols of the stack nor on their order: it is the vector of the stack
\* that holds this protocol alone, and the one of the stack [Ipv4, Tcp, Udp].
\* A protocol that is not in the stack has no vector in the output.
C20_StackOnlySelects ==
  op = "Headers::new" =>
    /\ Len(out) = Len(argStack)
    /\ \A i \in 1..Len(argStack) :
         /\ out[i] = Headers_new(arg, <<argStack[i]>>)[1]
         /\ out[i] = Headers_new(arg, FullStack)[PlaceInFullStack(argStack[i])]
    /\ {out[i].kind : i \in 1..Len(out)} = {argStack[i] : i \in 1..Len(argStack)}
    /\ HeadersWidth(out) = StackWidth(argStack)

\* C20 witness: the stack [Tcp] alone on the Ethernet / IPv4 / TCP frame: one
\* vector of 480 values, the encoded TCP header, the same as under
\* [Ipv4, Tcp, Udp], and no IPv4 vector
C20_Witness ==
  /\ op = "Headers::new"
  /\ arg = DocPacket
  /\ argStack = <<"Tcp">>
  /\ Len(out) = 1
  /\ out[1].kind = "Tcp"
  /\ out[1].data # TcpHeader_default
  /\ out[1] = Headers_new(DocPacket, FullStack)[2]
  /\ HeadersWidth(out) = 480

---------------------------------------------------------------------------
(* Claims about the options.                                               *)

\* whether the last call was one of the two get_options_bits
IsGetOptionsBits == op \in {"ipv4::get_options_bits", "tcp::get_options_bits"}

\* C21: for an options slice of n <= 40 bytes, n = 0 included, both
\* get_options_bits return 320 values: the bits of the n bytes in byte order,
\* most significant first, at positions 0 .. 8n - 1, and -1 from 8n on.
C21_OptionsUpTo40 ==
  IsGetOptionsBits /\ Len(arg) <= 40 =>
    /\ Len(out) = 320
    /\ \A k \in 0..(8 * Len(arg) - 1) : out[k + 1] = WireBit(arg, k)
    /\ \A k \in (8 * Len(arg))..319 : out[k + 1] = -1

\* C21 witness: the encoder ran on 12 bytes that hold set and clear bits: 96
\* bits, then -1 up to position 319
C21_Witness ==
  /\ IsGetOptionsBits
  /\ Len(arg) = 12
  /\ Len(out) = 320
  /\ {out[k] : k \in 1..96} = {0, 1}
  /\ out[97] = -1 /\ out[320] = -1

\* C22: for an options slice of more than 40 bytes, get_options_bits still
\* returns exactly 320 values.
C22_OptionsOver40 ==
  IsGetOptionsBits /\ Len(arg) > 40 => Len(out) = 320

\* the length the claim gives for the options slice of a header of at least 20
\* bytes whose 4-bit length field is words: min(max(4 x words - 20, 0), len - 20)
ClaimedOptionsLength(slice, words) ==
  LET wanted == IF 4 * words - 20 > 0 THEN 4 * words - 20 ELSE 0
  IN  Min(wanted, Len(slice) - 20)

\* what the claim says of the 320 option positions of a vector made from a
\* slice with n bytes of options
OptionsAsClaimed(slice, vector, n) ==
  /\ n <= 40
  /\ Len(vector) = 480
  /\ \A k \in 0..(8 * n - 1) : vector[160 + k + 1] = WireBit(slice, 160 + k)
  /\ \A k \in (8 * n)..319 : vector[160 + k + 1] = -1

\* C23: the options slice a dissector hands to get_options_bits holds at most
\* 40 bytes, min(max(4 x header length - 20, 0), slice length - 20) of them
\* (data offset for TCP); the vector holds 8 times as many option bits, none
\* dropped and none past position 479, and -1 after them.
C23_OptionsAtMost40 ==
  /\ op = "Ipv4Header::new" /\ Len(arg) >= 20 =>
       /\ Len(Ipv4_get_options_raw(arg)) = ClaimedOptionsLength(arg, At(arg, 0) % 16)
       /\ OptionsAsClaimed(arg, out, Len(Ipv4_get_options_raw(arg)))
  /\ op = "TcpHeader::new" /\ Len(arg) >= 20 =>
       /\ Len(Tcp_get_options_raw(arg)) = ClaimedOptionsLength(arg, At(arg, 12) \div 16)
       /\ OptionsAsClaimed(arg, out, Len(Tcp_get_options_raw(arg)))

\* C23 witness: an IPv4 header of length 15 words on a slice of 60 bytes: 40
\* bytes of options, and the last position of the vector is an option bit
C23_Witness ==
  /\ op = "Ipv4Header::new"
  /\ Len(arg) = 60
  /\ At(arg, 0) % 16 = 15
  /\ Len(Ipv4_get_options_raw(arg)) = 40
  /\ out[480] = WireBit(arg, 479)

---------------------------------------------------------------------------
(* Claims about the demultiplexing.                                        *)

\* whether a set of headers is the all -1 vector of its width for every
\* protocol of the stack
AllDefault(headers, stack) ==
  /\ Len(headers) = Len(stack)
  /\ \A i \in 1..Len(stack) :
       /\ headers[i].kind = stack[i]
       /\ headers[i].data = Filled(DeclaredWidth(stack[i]), -1)

\* C24: for a frame of fewer than 14 bytes, the empty frame included,
\* Headers::new returns normally and stores the all -1 vector for every
\* protocol of the stack.
C24_NotEthernetAllDefault ==
  Len(arg) < 14 =>
    /\ op # "panic"
    /\ op = "Headers::new" => AllDefault(out, argStack)

\* C24 witness: Headers::new returned two all -1 vectors for a frame of 13
\* bytes under [Ipv4, Udp]
C24_Witness ==
  /\ op = "Headers::new"
  /\ Len(arg) = 13
  /\ argStack = <<"Ipv4", "Udp">>
  /\ out[1].data = Filled(480, -1)
  /\ out[2].data = Filled(64, -1)

\* the vectors Headers::new returned for a protocol, one for each time the
\* protocol is in the stack
VectorsOf(proto) == {out[i].data : i \in {n \in 1..Len(out) : argStack[n] = proto}}

\* the all -1 vector of a protocol
DefaultOf(proto) == Filled(DeclaredWidth(proto), -1)

\* C25: TCP and UDP are looked for only in the payload of an IPv4 header that
\* parses, and by its next-protocol field alone: 6 gives the TCP dissector's
\* vector of the IPv4 payload and the default for UDP, 17 gives the UDP
\* dissector's vector and the default for TCP, another value gives the default
\* for both; with no IPv4 header all three are the default.  So at most one of
\* the TCP and UDP vectors is not the default, and with a default IPv4 vector
\* both are.
C25_TransportByNextProtocol ==
  op = "Headers::new" =>
    LET ip == FoundSlice("Ipv4", arg)
        next == At(Unwrap(ip), 9)
        below == Ipv4_payload(Unwrap(ip))
    IN  /\ IsSome(ip) /\ next = 6 =>
             /\ VectorsOf("Tcp") \subseteq {TcpHeader_new(below)}
             /\ VectorsOf("Udp") \subseteq {DefaultOf("Udp")}
        /\ IsSome(ip) /\ next = 17 =>
             /\ VectorsOf("Udp") \subseteq {UdpHeader_new(below)}
             /\ VectorsOf("Tcp") \subseteq {DefaultOf("Tcp")}
        /\ IsSome(ip) /\ next \notin {6, 17} =>
             /\ VectorsOf("Tcp") \subseteq {DefaultOf("Tcp")}
             /\ VectorsOf("Udp") \subseteq {DefaultOf("Udp")}
        /\ ~IsSome(ip) => \A proto \in ProtocolType :
                            VectorsOf(proto) \subseteq {DefaultOf(proto)}
        /\ \/ VectorsOf("Tcp") \subseteq {DefaultOf("Tcp")}
           \/ VectorsOf("Udp") \subseteq {DefaultOf("Udp")}
        /\ DefaultOf("Ipv4") \in VectorsOf("Ipv4") =>
             /\ VectorsOf("Tcp") \subseteq {DefaultOf("Tcp")}
             /\ VectorsOf("Udp") \subseteq {DefaultOf("Udp")}

\* C25 witness: the VLAN and UDP frame under [Tcp, Udp]: the TCP vector is the
\* default and the UDP vector is the UDP dissector's, not the default
C25_Witness ==
  /\ op = "Headers::new"
  /\ arg = BenchPacket
  /\ argStack = <<"Tcp", "Udp">>
  /\ out[1].data = DefaultOf("Tcp")
  /\ out[2].data = UdpHeader_new(Ipv4_payload(Unwrap(FoundSlice("Ipv4", arg))))
  /\ out[2].data # DefaultOf("Udp")

\* whether the type of an Ethernet frame is VLAN, 0x8100
IsVlanFrame(frame) == Len(frame) >= 14 /\ SubSeq(frame, 13, 14) = <<129, 0>>

\* a tagged frame without the four bytes of its tag: the inner type takes the
\* place of the outer one
WithoutTag(frame) == SubSeq(frame, 1, 12) \o SubSeq(frame, 17, Len(frame))

\* C26: one VLAN tag is popped and no more.  A VLAN frame with at least 4 bytes
\* after the Ethernet header gives what the same frame without the tag gives,
\* unless the inner type is VLAN again: such a frame gives the all -1 vector
\* for every protocol of the stack, and so does a VLAN frame with fewer than 4
\* bytes after the Ethernet header.
C26_OneVlanTag ==
  op = "Headers::new" /\ IsVlanFrame(arg) =>
    /\ Len(arg) >= 18 /\ ~IsVlanFrame(WithoutTag(arg)) =>
         out = Headers_new(WithoutTag(arg), argStack)
    /\ Len(arg) >= 18 /\ IsVlanFrame(WithoutTag(arg)) => AllDefault(out, argStack)
    /\ Len(arg) < 18 => AllDefault(out, argStack)

\* C26 witness: the frame with one tag above IPv4 and UDP under [Ipv4, Udp]:
\* both vectors are encoded, as they are for the frame without the tag
C26_Witness ==
  /\ op = "Headers::new"
  /\ arg = BenchPacket
  /\ argStack = <<"Ipv4", "Udp">>
  /\ out = Headers_new(WithoutTag(BenchPacket), argStack)
  /\ out[1].data # DefaultOf("Ipv4")
  /\ out[2].data # DefaultOf("Udp")

---------------------------------------------------------------------------
(* Claims about anonymization over time.                                   *)

\* whether the positions anonymize clears are 0 in every vector of a set
RangesZero(headers) ==
  \A i \in 1..Len(headers) :
    \A k \in AnonymizedPositions(headers[i].kind) : headers[i].data[k + 1] = 0

\* C27: once anonymize() has been called, the positions 96..159 of every
\* stored IPv4 vector and 0..31 of every stored TCP vector are 0 in every
\* later state, for the packets appended by add after the call too.
C27_AnonymizationPersists ==
  anonymized => \A j \in 1..Len(data) : RangesZero(data[j])

\* C27 as amended: when anonymize() returns, these positions are 0 in every
\* stored vector; a set in which they are 0 keeps them 0 whatever is called
\* next; a packet appended by add, after anonymize too, is stored as
\* Headers::new encodes it.
C27_AnonymizedWhenCalled ==
  /\ [](op = "anonymize" => \A j \in 1..Len(data) : RangesZero(data[j]))
  /\ [][\A j \in 1..Len(data) :
          RangesZero(data[j]) => Len(data') >= j /\ RangesZero(data'[j])]_vars
  /\ [][op' = "add" =>
          data'[Len(data')] = Headers_new(fed'[Len(fed')], protocols)]_vars

\* C27 witness: anonymize, then add of the TCP frame again: the first set has
\* no address and no port left, the second has both
C27_Witness ==
  /\ op = "add"
  /\ anonymized
  /\ protocols = <<"Ipv4", "Tcp">>
  /\ fed = <<DocPacket, DocPacket>>
  /\ RangesZero(data[1])
  /\ ~RangesZero(data[2])
  /\ data[2] = Headers_new(DocPacket, protocols)

\* C28: anonymize() preserves absence: a vector stored as the all -1 default,
\* its protocol being absent from the frame or unparsable, is the all -1
\* default in every later state; anonymize never replaces a -1 by another
\* value.
C28_AbsencePreserved ==
  \A j \in 1..Len(data) :
    \A i \in 1..Len(data[j]) :
      Headers_new(fed[j], protocols)[i].data = DefaultOf(protocols[i])
        => data[j][i].data = DefaultOf(protocols[i])

---------------------------------------------------------------------------
(* Claims about the shape of a vector.                                     *)

\* an IPv4 or TCP vector as the claim has it: all -1, or 0 and 1 in the 160
\* positions of the fixed header and in the first 8n option positions, and -1
\* in all the option positions after them
Shape480(vector) ==
  /\ Len(vector) = 480
  /\ \/ vector = Filled(480, -1)
     \/ /\ \A k \in 1..160 : vector[k] \in {0, 1}
        /\ \E n \in 0..40 :
             /\ \A k \in 161..(160 + 8 * n) : vector[k] \in {0, 1}
             /\ \A k \in (161 + 8 * n)..480 : vector[k] = -1

\* a UDP vector as the claim has it: all -1, or no -1 at all
Shape64(vector) ==
  /\ Len(vector) = 64
  /\ \/ vector = Filled(64, -1)
     \/ \A k \in 1..64 : vector[k] \in {0, 1}

\* C29: a vector made by a dissector is all -1, or has no -1 in its fixed
\* fields; the -1 of an IPv4 or TCP vector that is not the default are the
\* last option positions, a multiple of 8 of them, and a UDP vector that is
\* not the default has none.
C29_VectorShapes ==
  /\ op = "Ipv4Header::new" => Shape480(out)
  /\ op = "TcpHeader::new" => Shape480(out)
  /\ op = "UdpHeader::new" => Shape64(out)

\* C29 witness: the TCP dissector on a header with 12 bytes of options: bits up
\* to position 255 and -1 from position 256 on
C29_Witness ==
  /\ op = "TcpHeader::new"
  /\ Len(arg) >= 20
  /\ Len(Tcp_get_options_raw(arg)) = 12
  /\ \A k \in 1..256 : out[k] \in {0, 1}
  /\ \A k \in 257..480 : out[k] = -1

---------------------------------------------------------------------------
(* PayloadHeader: the bits of a payload, up to the MTU.                    *)

\* the 1514 of payload.rs: the MTU in bytes
PayloadMtu == 1514

\* impl Default for PayloadHeader: vec![-1.; 1514 * 8]
PayloadHeader_default == Filled(PayloadMtu * 8, -1)

\* Vec::resize(n, x): cut at n, or filled up to n with x
Resize(v, n, x) ==
  IF Len(v) >= n THEN SubSeq(v, 1, n) ELSE v \o Filled(n - Len(v), x)

\* PayloadHeader::new
PayloadHeader_new(packet) ==
  LET len == Len(packet)
  IN  IF len < PayloadMtu
      THEN Resize(FwdBits(packet, 0, len * 8), PayloadMtu * 8, -1)
      ELSE PayloadHeader_default

\* PayloadHeader::new panics: a read packet[i / 8] is past the end
PayloadHeader_new_panics(packet) ==
  /\ Len(packet) < PayloadMtu
  /\ IndexPanics(packet, {i \div 8 : i \in 0..(Len(packet) * 8 - 1)})

\* the payloads PayloadHeader::new is tried on: short ones, and the bytes of
\* test_payload_header_bad_header and others at lengths around the MTU
PayloadSlices ==
       Prefixes(TcpTest)
  \cup {Filled(n, v) : n \in {1512, 1513, 1514, 1515, 2000},
                       v \in {0, 69, 85, 170, 255}}

---------------------------------------------------------------------------
(* SpecPayload: PayloadHeader::new applied to a payload.                   *)

InitPayload ==
  /\ arg \in PayloadSlices
  /\ argStack = <<>>
  /\ op = "init"
  /\ out = <<>>
  /\ NprintUnused

CallPayloadHeaderNew ==
  /\ op' = IF PayloadHeader_new_panics(arg) THEN "panic" ELSE "PayloadHeader::new"
  /\ out' = IF PayloadHeader_new_panics(arg) THEN <<>> ELSE PayloadHeader_new(arg)
  /\ UNCHANGED <<protocols, data, nb_pkt, ret, arg, argStack, fed, anonymized>>

NextPayload == CallPayloadHeaderNew

SpecPayload == InitPayload /\ [][NextPayload]_vars

\* C30: PayloadHeader::new returns 1514 x 8 values, and the all -1 default
\* only for an input of more than 1514 bytes: an input of n <= 1514 bytes is
\* returned as its 8n bits in order, most significant first, followed by -1
\* up to position 1514 x 8 - 1.
C30_PayloadUpToMtu ==
  op = "PayloadHeader::new" =>
    /\ Len(out) = 1514 * 8
    /\ Len(arg) <= 1514 =>
         /\ \A k \in 0..(8 * Len(arg) - 1) : out[k + 1] = WireBit(arg, k)
         /\ \A k \in (8 * Len(arg))..(1514 * 8 - 1) : out[k + 1] = -1
    /\ Len(arg) > 1514 => out = Filled(1514 * 8, -1)

====
